---- MODULE Spec2Model ----
(***************************************************************************)
(* The search orchestrator of the lead-generation front-end.               *)
(*                                                                         *)
(* The repository holds three versions of searchBusinesses:                *)
(*   "single"  - src/unnamed/part_002 lines 9-125: one call, no retry;     *)
(*   "halving" - src/unnamed/part_002 lines 256-299: one retry with        *)
(*               max(5, floor(target/2)) after any non-quota failure or    *)
(*               an empty first result;                                    *)
(*   "ladder"  - src/services/geminiService.ts lines 129-162: the fixed    *)
(*               ladder 40, 20, 10, a further rung only after a 500 /      *)
(*               "Internal error" fault.                                   *)
(* One invocation of searchBusinesses is modelled; every step of the model *)
(* is the code between two suspension points (the await of the endpoint    *)
(* call and the await of the retry timer).                                 *)
(***************************************************************************)
EXTENDS Integers, Sequences, FiniteSets, TLC

----------------------------------------------------------------------------
(* Bounds of the model *)

MaxTarget == 12
MaxRecs == 2
TickMs == 1000
MaxTime == 6000
MaxTextLen == 5
MaxOver == 2
MaxRuns == 3
MaxLiveRuns == 2
MaxFreshRuns == 2
AppTickMs == 400
MaxClock == 2000
MaxMapMs == 1

----------------------------------------------------------------------------
(* Program constants *)

WAIT_TIME_MS == 2000
DEFAULT_TARGET == 20
MIN_FALLBACK == 5
UNDEF == 0
STEP1_DELAY_MS == 400
STEP3_DELAY_MS == 500
STEP4_DELAY_MS == 300

MSG_API_KEY == "API Key not found in environment variables"
MSG_NO_RESULTS == "No results found in first attempt"
MSG_QUOTA == "Daily AI search quota exceeded. Please try again later."
MSG_TYPE_ERROR == "Cannot read properties of null (reading 'name')"
MSG_NO_LEADS == "No leads found. Please try a different query."
MSG_NO_NEW_LEADS == "No new leads found. Try a different query."
MSG_UNKNOWN == "An unknown error occurred"
MSG_SENTINEL == "No results"

Variants == {"single", "halving", "ladder"}

(* Target batch sizes a caller passes to the halving version; the default  *)
(* (what App.tsx gets, since it passes no fourth argument) is included.    *)
Targets == (1..MaxTarget) \cup {DEFAULT_TARGET}

----------------------------------------------------------------------------
(* Errors.  An error is what a catch clause can look at: the numeric       *)
(* status and code fields (UNDEF when the property is absent) and the      *)
(* message text.                                                           *)

TransportMessages ==
  { "Internal error encountered.",
    "got status: 429 Too Many Requests",
    "You exceeded your current quota",
    "Quota exceeded for metric",
    "Internal error: 429 upstream",
    "fetch failed" }

Messages ==
  TransportMessages \cup {MSG_API_KEY, MSG_NO_RESULTS, MSG_QUOTA, MSG_TYPE_ERROR, ""}

Keywords == {"429", "quota", "Internal error"}

(* String.prototype.includes on the message texts of the model: the        *)
(* keywords each text contains as a (case-sensitive) substring.            *)
KeywordsIn(m) ==
  CASE m = "Internal error encountered."       -> {"Internal error"}
    [] m = "got status: 429 Too Many Requests" -> {"429"}
    [] m = "You exceeded your current quota"   -> {"quota"}
    [] m = "Quota exceeded for metric"         -> {}
    [] m = "Internal error: 429 upstream"      -> {"Internal error", "429"}
    [] m = "fetch failed"                      -> {}
    [] m = MSG_API_KEY                         -> {}
    [] m = MSG_NO_RESULTS                      -> {}
    [] m = MSG_QUOTA                           -> {"quota"}
    [] m = MSG_TYPE_ERROR                      -> {}
    [] OTHER                                   -> {}

Includes(m, kw) == kw \in KeywordsIn(m)

(* error.toString() is "<name>: <message>"; no error name of the program   *)
(* contains a keyword, so the search in it is the search in the message.   *)
ToStringIncludes(e, kw) == Includes(e.message, kw)

(* new Error(msg): no status, no code *)
NewError(msg) == [status |-> UNDEF, code |-> UNDEF, message |-> msg]

NoError == NewError("")

(* What the endpoint call can reject with *)
TransportErrors ==
  [status : {UNDEF, 429, 500}, code : {UNDEF, 500}, message : TransportMessages]

----------------------------------------------------------------------------
(* Responses of the endpoint call and results of one attempt               *)

(* A response either rejects (kind "throw") or carries text, described by  *)
(* what the parse of the attempt makes of it:                              *)
(*   "empty"       response.text is falsy, replaced by "[]";               *)
(*   "unparseable" JSON.parse throws (and nothing is salvaged);            *)
(*   "nonarray"    the text parses to a value that is not an array;        *)
(*   "array"       the text parses to an array of n objects;               *)
(*   "nullelem"    the text parses to an array holding a null element.     *)
Thrown(e) == [kind |-> "throw", err |-> e, shape |-> "none", n |-> 0]
Text(s, k) == [kind |-> "text", err |-> NoError, shape |-> s, n |-> k]

Responses ==
  {Thrown(e) : e \in TransportErrors}
    \cup {Text(s, 0) : s \in {"empty", "unparseable", "nonarray"}}
    \cup {Text("array", k) : k \in 0..MaxRecs}
    \cup {Text("nullelem", k) : k \in 1..MaxRecs}

Records(k) == [kind |-> "records", n |-> k, err |-> NoError]
Failure(e) == [kind |-> "error", n |-> 0, err |-> e]

(* fetchFromGemini from the settled endpoint call to its return or throw   *)
FetchResult(r) ==
  CASE r.kind = "throw"       -> Failure(r.err)
    [] r.shape = "empty"      -> Records(0)
    [] r.shape = "unparseable" -> Records(0)
    [] r.shape = "nonarray"   -> Records(0)
    [] r.shape = "array"      -> Records(r.n)
    [] r.shape = "nullelem"   -> Failure(NewError(MSG_TYPE_ERROR))

(* if (!process.env.API_KEY) throw ... : TRUE when the attempt may go on   *)
HasApiKeyAlways(key) == TRUE

HasApiKey(key) == key

----------------------------------------------------------------------------
(* The retry decisions of searchBusinesses                                 *)

Max(a, b) == IF a >= b THEN a ELSE b

fallbackBatchSizeSame(t) == Max(MIN_FALLBACK, t)

(* Math.max(5, Math.floor(targetBatchSize / 2)) *)
fallbackBatchSize(t) == Max(MIN_FALLBACK, t \div 2)

(* halving, first catch: toString includes '429' or 'quota' *)
isQuotaError(e) == ToStringIncludes(e, "429") \/ ToStringIncludes(e, "quota")

(* halving, second catch: toString includes '429' *)
isQuotaError2(e) == ToStringIncludes(e, "429")

(* ladder: status 500, code 500 or message includes "Internal error" *)
isInternalError(e) ==
  e.status = 500 \/ e.code = 500 \/ Includes(e.message, "Internal error")

LadderBatchTwoRungs(k) == CASE k = 1 -> 40 [] OTHER -> 20

(* Batch size of rung k of the fixed ladder *)
LadderBatch(k) == CASE k = 1 -> 40 [] k = 2 -> 20 [] OTHER -> 10

(* setTimeout(resolve, WAIT_TIME_MS) started at time t resolves no earlier *)
RetryDeadlineNoWait(t) == t

RetryDeadline(t) == t + WAIT_TIME_MS

Return(res) == [act |-> "return", n |-> res.n, err |-> NoError, batch |-> 0]
Throw(e) == [act |-> "throw", n |-> 0, err |-> e, batch |-> 0]
Retry(b) == [act |-> "retry", n |-> 0, err |-> NoError, batch |-> b]

(* single: the result or the error of the only attempt goes to the caller  *)
AfterSingle(res) ==
  IF res.kind = "records" THEN Return(res) ELSE Throw(res.err)

AfterHalvingSwallow(k, t, res) ==
  IF k = 1
    THEN IF res.kind = "records" /\ res.n > 0
           THEN Return(res)
           ELSE LET error == IF res.kind = "error" THEN res.err
                             ELSE NewError(MSG_NO_RESULTS)
                IN  IF isQuotaError(error)
                      THEN Throw(NewError(MSG_QUOTA))
                      ELSE Retry(fallbackBatchSize(t))
    ELSE Return(Records(res.n))

(* halving: what searchBusinesses does with the result of attempt k *)
AfterHalving(k, t, res) ==
  IF k = 1
    THEN IF res.kind = "records" /\ res.n > 0
           THEN Return(res)
           ELSE LET error == IF res.kind = "error" THEN res.err
                             ELSE NewError(MSG_NO_RESULTS)
                IN  IF isQuotaError(error)
                      THEN Throw(NewError(MSG_QUOTA))
                      ELSE Retry(fallbackBatchSize(t))
    ELSE IF res.kind = "records"
           THEN Return(res)
           ELSE IF isQuotaError2(res.err)
                  THEN Throw(NewError(MSG_QUOTA))
                  ELSE Throw(res.err)

AfterLadderUnbounded(k, res) ==
  IF res.kind = "records"
    THEN Return(res)
    ELSE IF isInternalError(res.err)
           THEN Retry(LadderBatch(k + 1))
           ELSE Throw(res.err)

(* ladder: what searchBusinesses does with the result of attempt k *)
AfterLadder(k, res) ==
  IF res.kind = "records"
    THEN Return(res)
    ELSE IF k < 3 /\ isInternalError(res.err)
           THEN Retry(LadderBatch(k + 1))
           ELSE Throw(res.err)

AfterAttempt(v, k, t, res) ==
  CASE v = "single"  -> AfterSingle(res)
    [] v = "halving" -> AfterHalving(k, t, res)
    [] v = "ladder"  -> AfterLadder(k, res)

(* Batch size of the first attempt *)
FirstBatch(v, t) ==
  CASE v = "halving" -> t
    [] OTHER         -> LadderBatch(1)

----------------------------------------------------------------------------
(* The response text.  A text is a sequence of tokens: the brackets and    *)
(* the comma of JSON, two JSON objects "a" and "b", the opening of an      *)
(* object up to the colon of its one member and the brace that closes it   *)
(* (OBJ_OPEN value OBJ_CLOSE is an object that holds the value), a word of *)
(* prose "p" (not JSON), the two code-fence markers and white space.       *)

WS == " "
(* the markdown fence of three backquotes, bare and followed by json *)
FENCE == "fence"
FENCE_JSON == "fence-json"

OBJ_OPEN == "{"
OBJ_CLOSE == "}"

ItemTokens == {"a", "b"}

TextTokens ==
  {"[", "]", ",", OBJ_OPEN, OBJ_CLOSE, "p", FENCE, FENCE_JSON, WS} \cup ItemTokens

Texts == UNION {[1..n -> TextTokens] : n \in 0..MaxTextLen}

(* JSON.parse skips white space between tokens *)
SkipWs(s, i) ==
  IF \E j \in i..Len(s) : s[j] # WS
    THEN CHOOSE j \in i..Len(s) : s[j] # WS /\ \A k \in i..(j - 1) : s[k] = WS
    ELSE Len(s) + 1

StripWs(s) == SelectSeq(s, LAMBDA t : t # WS)

RECURSIVE EndOfValue(_, _)
RECURSIVE EndOfArray(_, _, _)

(* JSON grammar: the index after the JSON value that starts at i (after    *)
(* white space), 0 when no value starts there.  A value is an object       *)
(* token, an object that holds a value, or an array of values.             *)
EndOfValue(s, i) ==
  LET j == SkipWs(s, i)
  IN  IF j > Len(s) THEN 0
      ELSE IF s[j] \in ItemTokens THEN j + 1
      ELSE IF s[j] = "[" THEN EndOfArray(s, j + 1, "start")
      ELSE IF s[j] = OBJ_OPEN
             THEN LET e == EndOfValue(s, j + 1)
                      k == IF e = 0 THEN 0 ELSE SkipWs(s, e)
                  IN  IF e # 0 /\ k <= Len(s) /\ s[k] = OBJ_CLOSE THEN k + 1
                      ELSE 0
      ELSE 0

(* Inside an array: st is "start" after "[", "value" after an element,     *)
(* "comma" after a comma.                                                  *)
EndOfArray(s, i, st) ==
  LET j == SkipWs(s, i)
  IN  IF j > Len(s) THEN 0
      ELSE IF s[j] = "]" /\ st \in {"start", "value"} THEN j + 1
      ELSE IF s[j] = "," /\ st = "value" THEN EndOfArray(s, j + 1, "comma")
      ELSE IF st \in {"start", "comma"}
             THEN LET e == EndOfValue(s, j)
                  IN  IF e = 0 THEN 0 ELSE EndOfArray(s, e, "value")
      ELSE 0

(* JSON.parse(s) does not throw *)
JsonParses(s) ==
  LET e == EndOfValue(s, 1)
  IN  e # 0 /\ SkipWs(s, e) > Len(s)

(* Array.isArray(JSON.parse(s)) *)
IsArrayText(s) == JsonParses(s) /\ s[SkipWs(s, 1)] = "["

RECURSIVE ElemsFrom(_, _, _)

(* The elements of the array text s from index i on, each as its own text  *)
ElemsFrom(s, i, acc) ==
  LET j == SkipWs(s, i)
  IN  IF j > Len(s) \/ s[j] = "]" THEN acc
      ELSE IF s[j] = "," THEN ElemsFrom(s, j + 1, acc)
      ELSE LET e == EndOfValue(s, j)
           IN  ElemsFrom(s, e, Append(acc, StripWs(SubSeq(s, j, e - 1))))

(* JSON.parse(s) of an array text: its elements in order *)
Elements(s) == ElemsFrom(s, SkipWs(s, 1) + 1, <<>>)

(* str.replace(FENCE_JSON, '').replace(FENCE, ''), every occurrence *)
StripFences(s) == SelectSeq(s, LAMBDA t : t # FENCE_JSON /\ t # FENCE)

(* String.prototype.trim *)
Trim(s) ==
  IF \A k \in 1..Len(s) : s[k] = WS THEN <<>>
  ELSE LET f == CHOOSE i \in 1..Len(s) :
                  s[i] # WS /\ \A k \in 1..(i - 1) : s[k] = WS
           l == CHOOSE i \in 1..Len(s) :
                  s[i] # WS /\ \A k \in (i + 1)..Len(s) : s[k] = WS
       IN  SubSeq(s, f, l)

(* indexOf('[') and lastIndexOf(']'), 1-based, 0 for -1 *)
FirstIndexOf(s, t) ==
  IF \E i \in 1..Len(s) : s[i] = t
    THEN CHOOSE i \in 1..Len(s) : s[i] = t /\ \A k \in 1..(i - 1) : s[k] # t
    ELSE 0

LastIndexOf(s, t) ==
  IF \E i \in 1..Len(s) : s[i] = t
    THEN CHOOSE i \in 1..Len(s) : s[i] = t /\ \A k \in (i + 1)..Len(s) : s[k] # t
    ELSE 0

(* cleaned.substring(firstBracket, lastBracket + 1); substring swaps its    *)
(* arguments when the first is the larger                                  *)
IsolateArray(s) ==
  LET f == FirstIndexOf(s, "[")
      l == LastIndexOf(s, "]")
  IN  IF f # 0 /\ l # 0
        THEN IF l >= f THEN SubSeq(s, f, l) ELSE SubSeq(s, l + 1, f - 1)
        ELSE s

(* cleanJsonString of the single and ladder versions *)
cleanJsonStringPlain(s) == Trim(StripFences(s))

cleanJsonStringNotIsolating(s) == Trim(StripFences(s))

(* cleanJsonString of the halving version *)
cleanJsonStringIsolating(s) == Trim(IsolateArray(StripFences(s)))

(* cleanedText.match(/\[.*\]/s): from the first "[" to the last "]" after  *)
(* it; <<>> stands for no match (a match is never empty)                   *)
RegexArrayMatch(s) ==
  LET f == FirstIndexOf(s, "[")
      l == LastIndexOf(s, "]")
  IN  IF f # 0 /\ l > f THEN SubSeq(s, f, l) ELSE <<>>

Parsed(es) == [kind |-> "records", elems |-> es]
ParseThrows == [kind |-> "error", elems |-> <<>>]

(* JSON.parse(c) followed by the Array.isArray test *)
ArrayOrEmpty(c) == IF IsArrayText(c) THEN Parsed(Elements(c)) ELSE Parsed(<<>>)

(* response.text || "[]" *)
TextOrDefault(t) == IF t = <<>> THEN <<"[", "]">> ELSE t

ExtractThrowing(v, t) ==
  LET c == IF v = "halving" THEN cleanJsonStringIsolating(TextOrDefault(t))
           ELSE cleanJsonStringPlain(TextOrDefault(t))
  IN  IF JsonParses(c) THEN ArrayOrEmpty(c) ELSE ParseThrows

(* The extraction step of one attempt: from response.text to parsedData    *)
(* (the elements that are then mapped to records), per version             *)
Extract(v, t) ==
  LET text == TextOrDefault(t)
  IN  CASE v = "single" ->
             LET c == cleanJsonStringPlain(text)
             IN  IF JsonParses(c) THEN ArrayOrEmpty(c) ELSE Parsed(<<>>)
        [] v = "halving" ->
             LET c == cleanJsonStringIsolating(text)
             IN  IF JsonParses(c) THEN ArrayOrEmpty(c) ELSE Parsed(<<>>)
        [] v = "ladder" ->
             LET c == cleanJsonStringPlain(text)
             IN  IF JsonParses(c) THEN ArrayOrEmpty(c)
                 ELSE LET m == RegexArrayMatch(c)
                      IN  IF m # <<>> /\ JsonParses(m)
                            THEN ArrayOrEmpty(m)
                            ELSE Parsed(<<>>)

----------------------------------------------------------------------------
(* The elements of the parsed array and the records made of them           *)

(* JavaScript values of a field: the property is absent, null, false, the  *)
(* empty string, or a non-empty string                                     *)
JS_UNDEFINED == "<undefined>"
JS_NULL == "<null>"
JS_FALSE == "<false>"

PLACEHOLDER_NAME == "Unknown Business"
PLACEHOLDER_ADDRESS == "No address found"

(* The operands a || b replaces by b *)
Falsy(x) == x \in {JS_UNDEFINED, JS_NULL, JS_FALSE, ""}

OrElseIfAbsent(x, d) == IF x = JS_UNDEFINED THEN d ELSE x

(* x || d *)
OrElse(x, d) == IF Falsy(x) THEN d ELSE x

NameValues == {JS_UNDEFINED, JS_NULL, "", "Acme Cafe"}
AddressValues == {JS_UNDEFINED, JS_NULL, "", "1 Main St"}
WebsiteValues == {JS_UNDEFINED, JS_NULL, JS_FALSE, "", "https://acme.example"}
QualityValues == {JS_UNDEFINED, JS_NULL, "", "Good", "Decent", "Bad", "Excellent"}

(* The objects an element of the response array can be *)
Items ==
  [name : NameValues, address : AddressValues, website : WebsiteValues,
   websiteQuality : QualityValues]

LeadIdNoIndex(ts, index) == <<ts, 0>>

(* id: lead-<Date.now()>-<index> *)
LeadId(ts, index) == <<ts, index>>

DeriveQualityNonNull(item) ==
  OrElse(item.websiteQuality,
         IF item.website \in {JS_UNDEFINED, JS_NULL} THEN "Bad" ELSE "Good")

(* item.websiteQuality || (item.website ? 'Good' : 'Bad') *)
DeriveQuality(item) ==
  OrElse(item.websiteQuality, IF Falsy(item.website) THEN "Bad" ELSE "Good")

(* The callback of parsedData.map: one element to one lead record; ts is    *)
(* what Date.now() gives when the callback runs for this element           *)
Normalize(item, index, ts) ==
  [id             |-> LeadId(ts, index),
   name           |-> OrElse(item.name, PLACEHOLDER_NAME),
   address        |-> OrElse(item.address, PLACEHOLDER_ADDRESS),
   website        |-> item.website,
   status         |-> "enriched",
   websiteQuality |-> DeriveQuality(item)]

----------------------------------------------------------------------------
(* The exclusion list embedded in the prompt                               *)

EXCLUDE_LIMIT_LADDER == 30
EXCLUDE_LIMIT_HALVING == 50
EXCLUDE_LIMIT_SINGLE == 500

ExcludeLimit(v) ==
  CASE v = "ladder"  -> EXCLUDE_LIMIT_LADDER
    [] v = "halving" -> EXCLUDE_LIMIT_HALVING
    [] v = "single"  -> EXCLUDE_LIMIT_SINGLE

(* names.slice(-n) *)
SliceLast(names, n) ==
  IF Len(names) <= n THEN names ELSE SubSeq(names, Len(names) - n + 1, Len(names))

(* names.slice(0, n) *)
SliceFirst(names, n) ==
  IF Len(names) <= n THEN names ELSE SubSeq(names, 1, n)

(* The names that go into the prompt: slice(-30) in the ladder, slice(-50) *)
(* in the halving version, slice(0, 500) in the single version             *)
shortExclusionList(v, names) ==
  CASE v = "ladder"  -> SliceLast(names, EXCLUDE_LIMIT_LADDER)
    [] v = "halving" -> SliceLast(names, EXCLUDE_LIMIT_HALVING)
    [] v = "single"  -> SliceFirst(names, EXCLUDE_LIMIT_SINGLE)

(* exclusionContext: the exclusion sentence is present only for a          *)
(* non-empty list, and carries JSON.stringify of the short list            *)
exclusionContext(v, names) ==
  LET short == shortExclusionList(v, names)
  IN  [present |-> Len(short) > 0, names |-> short]

(* An exclusion list of n names; name i is the i-th name ever returned     *)
NameList(n) == [i \in 1..n |-> i]

ExclusionLists == {NameList(n) : n \in 0..(EXCLUDE_LIMIT_SINGLE + MaxOver)}

----------------------------------------------------------------------------
(* One application of a pure stage of fetchFromGemini to one input         *)

NoItem ==
  [name |-> JS_UNDEFINED, address |-> JS_UNDEFINED, website |-> JS_UNDEFINED,
   websiteQuality |-> JS_UNDEFINED]

(* The values JSON.parse can return: an array of elements, or a value     *)
(* that is no array.  An element is null, a primitive or an object.        *)
JsonNull == [type |-> "null", item |-> NoItem]
JsonNumber == [type |-> "number", item |-> NoItem]
JsonString == [type |-> "string", item |-> NoItem]
JsonObject(it) == [type |-> "object", item |-> it]

JsonElements ==
  {JsonNull, JsonNumber, JsonString}
    \cup {JsonObject(NoItem),
          JsonObject([name |-> "Acme Cafe", address |-> "1 Main St",
                      website |-> JS_NULL, websiteQuality |-> "Decent"])}

ArrayValue(es) == [isArray |-> TRUE, elems |-> es]
NonArrayValue(e) == [isArray |-> FALSE, elems |-> <<e>>]

ParsedValues ==
  {NonArrayValue(e) : e \in JsonElements}
    \cup UNION {{ArrayValue(es) : es \in [1..n -> JsonElements]} : n \in 0..MaxRecs}

NoValue == ArrayValue(<<>>)

(* Reading item.name, item.address, ... : a property read on null throws   *)
(* a TypeError, on a primitive it gives undefined                          *)
ReadThrows(e) == e.type = "null"
AsItem(e) == IF e.type = "object" THEN e.item ELSE NoItem

(* The values of Date.now() in the n callbacks of one parsedData.map that   *)
(* begins when the clock reads ts: the callback reads the clock once per   *)
(* element, the clock never goes back and advances by at most MaxMapMs     *)
(* while the response is mapped                                            *)
ReadTimes(ts, n) ==
  {tss \in [1..n -> ts..(ts + MaxMapMs)] :
     /\ n > 0 => tss[1] = ts
     /\ \A i \in 1..(n - 1) : tss[i] <= tss[i + 1]}

(* The number of callbacks parsedData.map makes *)
MapLength(v) == IF v.isArray THEN Len(v.elems) ELSE 0

Mapped(rs) == [kind |-> "records", records |-> rs, message |-> ""]
MapThrows(m) == [kind |-> "error", records |-> <<>>, message |-> m]

(* Lines 110-126: Array.isArray(parsedData) ? parsedData.map(...) : []     *)
(* tss[i] is the clock value the callback reads for element i              *)
MapParsed(v, tss) ==
  IF ~v.isArray THEN Mapped(<<>>)
  ELSE IF \E i \in 1..Len(v.elems) : ReadThrows(v.elems[i])
         THEN MapThrows(MSG_TYPE_ERROR)
         ELSE Mapped([i \in 1..Len(v.elems) |->
                        Normalize(AsItem(v.elems[i]), i - 1, tss[i])])

ExtractJob(t) ==
  [kind |-> "extract", text |-> t, item |-> NoItem, index |-> 0,
   names |-> <<>>, value |-> NoValue]
NormalizeJob(it, i) ==
  [kind |-> "normalize", text |-> <<>>, item |-> it, index |-> i,
   names |-> <<>>, value |-> NoValue]
TruncateJob(ns) ==
  [kind |-> "truncate", text |-> <<>>, item |-> NoItem, index |-> 0,
   names |-> ns, value |-> NoValue]
MapJob(v) ==
  [kind |-> "map", text |-> <<>>, item |-> NoItem, index |-> 0,
   names |-> <<>>, value |-> v]
NoJob ==
  [kind |-> "none", text |-> <<>>, item |-> NoItem, index |-> 0,
   names |-> <<>>, value |-> NoValue]

Jobs ==
  {ExtractJob(t) : t \in Texts}
    \cup {NormalizeJob(it, i) : it \in Items, i \in 0..(MaxRecs - 1)}
    \cup {TruncateJob(ns) : ns \in ExclusionLists}
    \cup {MapJob(v) : v \in ParsedValues}

NoExtraction == [kind |-> "none", elems |-> <<>>]
NoRecord == Normalize(NoItem, 0, 0)
NoExclusion == [present |-> FALSE, names |-> <<>>]
NoMapped == [kind |-> "none", records |-> <<>>, message |-> ""]

----------------------------------------------------------------------------
(* The workflow of App.tsx                                                 *)

NodeIds == 1..4
NodeStatus == {"IDLE", "RUNNING", "COMPLETED", "ERROR"}

INITIAL_NODES == [id \in NodeIds |-> "IDLE"]

(* errorMsg === null *)
NO_MESSAGE == JS_NULL

(* setNodes(prev => prev.map(n => n.id === id ? {...n, status} : n)) *)
updateNodeStatusAll(prev, id, status) == [n \in NodeIds |-> status]

updateNodeStatus(prev, id, status) == [prev EXCEPT ![id] = status]

(* The catch clause: the first node that is RUNNING becomes ERROR *)
markRunningNodeError(prev) ==
  IF \E id \in NodeIds : prev[id] = "RUNNING"
    THEN LET runningNode == CHOOSE id \in NodeIds :
                              /\ prev[id] = "RUNNING"
                              /\ \A k \in 1..(id - 1) : prev[k] # "RUNNING"
         IN  [prev EXCEPT ![runningNode] = "ERROR"]
    ELSE prev

(* error.message || "An unknown error occurred" *)
shownMessage(message) == OrElse(message, MSG_UNKNOWN)

finallyLeavesRunning(running) == running

(* finally { setIsRunning(false) } *)
finallyIsRunning(running) == FALSE

(* Lines 114-118: the message shown for a search that found nothing *)
emptyResultMessageSame(isAppend) == MSG_NO_LEADS

emptyResultMessage(isAppend) ==
  IF isAppend THEN MSG_NO_NEW_LEADS ELSE MSG_NO_LEADS

leadsAfterClickKept(isAppend, prev) == prev

leadsAfterClickCleared(isAppend, prev) == <<>>

(* Lines 89-91: if (!isAppend) setLeads([]) *)
leadsAfterClick(isAppend, prev) == IF isAppend THEN prev ELSE <<>>

renderedAfterClickStale(shown, next) == shown

(* What the handlers on screen close over once the click handler has       *)
(* returned to React: the state updates a click handler makes are flushed  *)
(* and their render is committed before the next click is delivered, so    *)
(* the next click meets the buttons and the closure of the new state       *)
renderedAfterClick(shown, next) == next

(* leads.map(l => l.name) *)
namesOf(ls) == [i \in 1..Len(ls) |-> ls[i].name]

existingIdsRecent(prev) ==
  {prev[i].name : i \in {k \in 1..Len(prev) : k = Len(prev)}}

(* new Set(prev.map(l => l.name)) *)
existingIds(prev) == {prev[i].name : i \in 1..Len(prev)}

(* results.filter(r => !existingIds.has(r.name)) *)
uniqueNew(prev, res) == SelectSeq(res, LAMBDA r : r.name \notin existingIds(prev))

(* The names the endpoint gives its elements in the workflow model *)
LeadNames == {"Acme Cafe", "Blue Bottle"}

ItemNamed(n) ==
  [name |-> n, address |-> JS_UNDEFINED, website |-> JS_UNDEFINED,
   websiteQuality |-> JS_UNDEFINED]

(* What searchBusinesses can resolve with when the response is mapped at   *)
(* time ts: the records mapped from one response array of at most MaxRecs  *)
(* elements, each stamped with the clock value its callback read           *)
SearchResults(ts) ==
  UNION { { MapParsed(ArrayValue([i \in 1..n |-> JsonObject(ItemNamed(ns[i]))]),
                      tss).records :
              ns \in [1..n -> LeadNames], tss \in ReadTimes(ts, n) } :
          n \in 0..MaxRecs }

(* The message of the error searchBusinesses can reject with *)
SearchFaults == {"fetch failed", "", MSG_SENTINEL}

(* A call that has returned: its locals are gone, except what its catch    *)
(* clause received                                                         *)
EndedRun(threw, message) ==
  [pc |-> "done", isAppend |-> FALSE, leads |-> <<>>, excludeNames |-> <<>>,
   results |-> <<>>, searchThrew |-> threw, error |-> message, deadline |-> 0]

NewRun(isAppend, closureLeads, due) ==
  [pc |-> "step1", isAppend |-> isAppend, leads |-> closureLeads,
   excludeNames |-> <<>>, results |-> <<>>, searchThrew |-> FALSE,
   error |-> "", deadline |-> due]

----------------------------------------------------------------------------
(* State *)

VARIABLES
  variant,    \* which version of searchBusinesses runs
  apiKey,     \* process.env.API_KEY is set
  target,     \* targetBatchSize of the invocation
  pc,         \* "idle", "inflight", "waiting", "done"
  batches,    \* batch size of every fetchFromGemini attempt, in order
  results,    \* result of every finished attempt, in order
  calls,      \* number of generateContent calls issued
  outstanding,\* number of generateContent calls not yet settled
  delays,     \* number of retry delays started
  nextBatch,  \* batch size of the attempt the running delay leads to
  deadline,   \* earliest time the running delay resolves
  now,        \* ms elapsed since the invocation began
  startedAt,  \* time every attempt began
  endedAt,    \* time every attempt ended
  outcome,    \* what the caller of searchBusinesses received
  job,        \* the input a pure stage of fetchFromGemini is applied to
  jobDone,    \* the stage has been applied
  extraction, \* result of the extraction step
  record,     \* result of the normalisation of one element
  exclusion,  \* the exclusion context embedded in the prompt
  mapped,     \* result of mapping a parsed value to records
  nodes,      \* status of the four pipeline nodes (React state)
  leads,      \* the visible result list (React state)
  isRunning,  \* React state
  errorMsg,   \* React state
  lastAddedCount, \* React state
  rendered,   \* isRunning and leads of the last committed render, which
              \* the handlers on screen close over
  runs,       \* the runWorkflow calls made so far: position and locals
  clock,      \* Date.now(), ms since the page loaded
  ignoredWhile \* where the call in flight stood at the last trigger that
              \* was refused ("none": no trigger was refused so far)

searchVars == <<pc, batches, results, calls, outstanding, delays, nextBatch,
                deadline, now, startedAt, endedAt, outcome>>

parseVars == <<job, jobDone, extraction, record, exclusion, mapped>>

(* The state of the page and of its runWorkflow calls *)
appState == <<nodes, leads, isRunning, errorMsg, lastAddedCount, rendered,
              runs, clock>>

appVars == <<nodes, leads, isRunning, errorMsg, lastAddedCount, rendered,
             runs, clock, ignoredWhile>>

vars == <<variant, apiKey, target, searchVars, parseVars, ignoredWhile, appVars>>

NoOutcome == [kind |-> "none", n |-> 0, err |-> NoError]

(* No search invocation has begun *)
SearchIdle ==
  /\ pc = "idle"
  /\ batches = <<>>
  /\ results = <<>>
  /\ calls = 0
  /\ outstanding = 0
  /\ delays = 0
  /\ nextBatch = 0
  /\ deadline = 0
  /\ now = 0
  /\ startedAt = <<>>
  /\ endedAt = <<>>
  /\ outcome = NoOutcome

(* No pure stage is being exercised *)
ParseIdle ==
  /\ job = NoJob
  /\ jobDone = FALSE
  /\ extraction = NoExtraction
  /\ record = NoRecord
  /\ exclusion = NoExclusion
  /\ mapped = NoMapped

(* The page as first rendered *)
AppIdle ==
  /\ nodes = INITIAL_NODES
  /\ leads = <<>>
  /\ isRunning = FALSE
  /\ errorMsg = NO_MESSAGE
  /\ lastAddedCount = 0
  /\ rendered = [isRunning |-> FALSE, leads |-> <<>>]
  /\ runs = <<>>
  /\ clock = 0
  /\ ignoredWhile = "none"

Init ==
  /\ variant \in Variants
  /\ apiKey \in BOOLEAN
  /\ target \in Targets
  /\ (variant # "halving" => target = DEFAULT_TARGET)
  /\ ParseIdle
  /\ AppIdle
  /\ pc = "idle"
  /\ batches = <<>>
  /\ results = <<>>
  /\ calls = 0
  /\ outstanding = 0
  /\ delays = 0
  /\ nextBatch = 0
  /\ deadline = 0
  /\ now = 0
  /\ startedAt = <<>>
  /\ endedAt = <<>>
  /\ outcome = NoOutcome

(* The code of searchBusinesses that runs once attempt k has ended with    *)
(* res: return, throw, or start the retry delay.                           *)
Settle(k, res) ==
  LET d == AfterAttempt(variant, k, target, res)
  IN  /\ results' = Append(results, res)
      /\ endedAt' = Append(endedAt, now)
      /\ IF d.act = "retry"
           THEN /\ pc' = "waiting"
                /\ deadline' = RetryDeadline(now)
                /\ delays' = delays + 1
                /\ nextBatch' = d.batch
                /\ outcome' = outcome
           ELSE /\ pc' = "done"
                /\ outcome' = IF d.act = "return"
                                THEN [kind |-> "records", n |-> d.n, err |-> NoError]
                                ELSE [kind |-> "error", n |-> 0, err |-> d.err]
                /\ UNCHANGED <<deadline, delays, nextBatch>>

(* fetchFromGemini(.., b) up to its first suspension: the credential check *)
(* throws at once, otherwise the endpoint call is issued.                  *)
BeginAttempt(k, b) ==
  /\ batches' = Append(batches, b)
  /\ startedAt' = Append(startedAt, now)
  /\ IF HasApiKey(apiKey)
       THEN /\ calls' = calls + 1
            /\ outstanding' = outstanding + 1
            /\ pc' = "inflight"
            /\ UNCHANGED <<results, endedAt, deadline, delays, nextBatch, outcome>>
       ELSE /\ UNCHANGED <<calls, outstanding>>
            /\ Settle(k, Failure(NewError(MSG_API_KEY)))

(* The caller invokes searchBusinesses *)
Invoke ==
  /\ pc = "idle"
  /\ BeginAttempt(1, FirstBatch(variant, target))
  /\ UNCHANGED <<variant, apiKey, target, now, parseVars, appVars>>

(* The outstanding endpoint call settles with response r *)
Respond(r) ==
  /\ pc = "inflight"
  /\ outstanding' = outstanding - 1
  /\ Settle(Len(batches), FetchResult(r))
  /\ UNCHANGED <<variant, apiKey, target, batches, calls, now, startedAt,
                 parseVars, appVars>>

(* The retry delay resolves and the next attempt begins *)
TimerFire ==
  /\ pc = "waiting"
  /\ now >= deadline
  /\ BeginAttempt(Len(batches) + 1, nextBatch)
  /\ UNCHANGED <<variant, apiKey, target, now, parseVars, appVars>>

(* Time passes while the invocation is suspended (now counts the ms since *)
(* searchBusinesses was invoked)                                           *)
Tick ==
  /\ pc \in {"inflight", "waiting"}
  /\ now + TickMs <= MaxTime
  /\ now' = now + TickMs
  /\ UNCHANGED <<variant, apiKey, target, pc, batches, results, calls,
                 outstanding, delays, nextBatch, deadline, startedAt, endedAt,
                 outcome, parseVars, appVars>>

Next ==
  \/ Invoke
  \/ \E r \in Responses : Respond(r)
  \/ TimerFire
  \/ Tick

Spec == Init /\ [][Next]_vars

----------------------------------------------------------------------------
(* The pure stages of fetchFromGemini, each applied to one input           *)

InitParse ==
  /\ variant \in Variants
  /\ apiKey = TRUE
  /\ target = DEFAULT_TARGET
  /\ SearchIdle
  /\ AppIdle
  /\ job \in Jobs
  /\ jobDone = FALSE
  /\ extraction = NoExtraction
  /\ record = NoRecord
  /\ exclusion = NoExclusion
  /\ mapped = NoMapped

(* response.text is cleaned and parsed *)
DoExtract ==
  /\ job.kind = "extract"
  /\ ~jobDone
  /\ extraction' = Extract(variant, job.text)
  /\ jobDone' = TRUE
  /\ UNCHANGED <<variant, apiKey, target, searchVars, appVars, job, record, exclusion, mapped>>

(* One element of the parsed array is mapped to a record *)
DoNormalize ==
  /\ job.kind = "normalize"
  /\ ~jobDone
  /\ record' = Normalize(job.item, job.index, now)
  /\ jobDone' = TRUE
  /\ UNCHANGED <<variant, apiKey, target, searchVars, appVars, job, extraction, exclusion, mapped>>

(* The exclusion list is cut for the prompt *)
DoTruncate ==
  /\ job.kind = "truncate"
  /\ ~jobDone
  /\ exclusion' = exclusionContext(variant, job.names)
  /\ jobDone' = TRUE
  /\ UNCHANGED <<variant, apiKey, target, searchVars, appVars, job, extraction, record, mapped>>

(* A parsed value is mapped to the records the attempt returns *)
DoMap ==
  /\ job.kind = "map"
  /\ ~jobDone
  /\ \E tss \in ReadTimes(now, MapLength(job.value)) :
       mapped' = MapParsed(job.value, tss)
  /\ jobDone' = TRUE
  /\ UNCHANGED <<variant, apiKey, target, searchVars, appVars, job, extraction,
                 record, exclusion>>

NextParse ==
  \/ DoExtract
  \/ DoNormalize
  \/ DoTruncate
  \/ DoMap

SpecParse == InitParse /\ [][NextParse]_vars

----------------------------------------------------------------------------
(* The workflow of App.tsx: runWorkflow calls started from the handlers of *)
(* the committed render.  A setter takes effect on the React state at      *)
(* once.  The render of what a click handler set is committed with the     *)
(* click (Trigger); the render of what a timer or promise callback set is  *)
(* committed by Render, before the next callback runs.                     *)

InitApp ==
  /\ variant = "ladder"
  /\ apiKey = TRUE
  /\ target = DEFAULT_TARGET
  /\ SearchIdle
  /\ ParseIdle
  /\ AppIdle

Active(r) == runs[r].pc # "done"

(* The last render shows the current state.  React commits the render of  *)
(* a state change before any later timer or promise callback runs.         *)
RenderCommitted == rendered = [isRunning |-> isRunning, leads |-> leads]

(* React commits the render of the state a timer or promise callback of   *)
(* runWorkflow has set: the handlers now close over the current state.     *)
(* Until then the buttons are those of the render before, which shows      *)
(* isRunning, so no call can start in between.                             *)
Render ==
  /\ ~RenderCommitted
  /\ rendered' = [isRunning |-> isRunning, leads |-> leads]
  /\ UNCHANGED <<variant, apiKey, target, searchVars, parseVars, ignoredWhile, nodes, leads,
                 isRunning, errorMsg, lastAddedCount, runs, clock>>

(* A click runs runWorkflow(isAppend) of the committed render up to its    *)
(* first await.  The replace button is disabled while that render's        *)
(* isRunning holds and the append button exists only when that render has  *)
(* leads and is not running; line 85 tests the same captured isRunning.    *)
(* The setters of lines 86-99 run inside the click handler, and React      *)
(* commits their render when the handler returns.                          *)
Trigger(isAppend) ==
  /\ Len(runs) < MaxRuns
  /\ ~rendered.isRunning
  /\ isAppend => Len(rendered.leads) > 0
  /\ isRunning' = TRUE
  /\ lastAddedCount' = 0
  /\ leads' = leadsAfterClick(isAppend, leads)
  /\ errorMsg' = NO_MESSAGE
  /\ nodes' = updateNodeStatus(INITIAL_NODES, 1, "RUNNING")
  /\ runs' = Append(runs, NewRun(isAppend, rendered.leads, clock + STEP1_DELAY_MS))
  /\ rendered' = renderedAfterClick(rendered,
                                    [isRunning |-> isRunning', leads |-> leads'])
  /\ UNCHANGED <<variant, apiKey, target, searchVars, parseVars, ignoredWhile,
                 clock>>

(* Where the runWorkflow call in flight stands ("done" when every call has *)
(* returned)                                                               *)
InFlightPc ==
  IF \E r \in DOMAIN runs : runs[r].pc # "done"
    THEN runs[CHOOSE r \in DOMAIN runs : runs[r].pc # "done"].pc
    ELSE "done"

(* A trigger while the committed render shows isRunning: the replace       *)
(* button is disabled (line 254), the append button is not rendered (line  *)
(* 274), and a call of this render's runWorkflow returns at line 85.       *)
(* Nothing of the page changes.                                            *)
TriggerIgnored(isAppend) ==
  /\ rendered.isRunning
  /\ ignoredWhile' = InFlightPc
  /\ UNCHANGED <<variant, apiKey, target, searchVars, parseVars, appState>>

(* The 400 ms timer of step 1 resolves: searchBusinesses is called *)
Step1Done(r) ==
  /\ runs[r].pc = "step1"
  /\ RenderCommitted
  /\ clock >= runs[r].deadline
  /\ nodes' = updateNodeStatus(updateNodeStatus(nodes, 1, "COMPLETED"), 2, "RUNNING")
  /\ runs' = [runs EXCEPT ![r].pc = "searching",
                          ![r].excludeNames =
                             IF runs[r].isAppend THEN namesOf(runs[r].leads)
                             ELSE <<>>]
  /\ UNCHANGED <<variant, apiKey, target, searchVars, parseVars, ignoredWhile, leads,
                 isRunning, errorMsg, lastAddedCount, rendered, clock>>

(* searchBusinesses resolves with res: lines 112-123, and for an empty     *)
(* result in replace mode the throw of line 119, the catch and the finally *)
SearchReturns(r, res) ==
  /\ runs[r].pc = "searching"
  /\ RenderCommitted
  /\ IF Len(res) = 0 /\ ~runs[r].isAppend
       THEN /\ errorMsg' = emptyResultMessage(runs[r].isAppend)
            /\ nodes' = updateNodeStatus(updateNodeStatus(nodes, 2, "COMPLETED"),
                                         2, "ERROR")
            /\ isRunning' = finallyIsRunning(isRunning)
            /\ runs' = [runs EXCEPT ![r] = EndedRun(FALSE, "")]
       ELSE /\ errorMsg' = IF Len(res) = 0 THEN emptyResultMessage(runs[r].isAppend)
                            ELSE errorMsg
            /\ nodes' = updateNodeStatus(updateNodeStatus(nodes, 2, "COMPLETED"),
                                         3, "RUNNING")
            /\ isRunning' = isRunning
            /\ runs' = [runs EXCEPT ![r].pc = "step3", ![r].results = res,
                                    ![r].deadline = clock + STEP3_DELAY_MS]
  /\ UNCHANGED <<variant, apiKey, target, searchVars, parseVars, ignoredWhile, leads,
                 lastAddedCount, rendered, clock>>

(* searchBusinesses rejects with an error of message m: catch and finally *)
SearchThrows(r, m) ==
  /\ runs[r].pc = "searching"
  /\ RenderCommitted
  /\ IF m # MSG_SENTINEL
       THEN /\ errorMsg' = shownMessage(m)
            /\ nodes' = markRunningNodeError(nodes)
       ELSE UNCHANGED <<errorMsg, nodes>>
  /\ isRunning' = finallyIsRunning(isRunning)
  /\ runs' = [runs EXCEPT ![r] = EndedRun(TRUE, m)]
  /\ UNCHANGED <<variant, apiKey, target, searchVars, parseVars, ignoredWhile, leads,
                 lastAddedCount, rendered, clock>>

(* The 500 ms timer of step 3 resolves: the new records are appended *)
Step3Done(r) ==
  /\ runs[r].pc = "step3"
  /\ RenderCommitted
  /\ clock >= runs[r].deadline
  /\ IF Len(runs[r].results) > 0
       THEN /\ leads' = leads \o uniqueNew(leads, runs[r].results)
            /\ lastAddedCount' = Len(runs[r].results)
       ELSE UNCHANGED <<leads, lastAddedCount>>
  /\ nodes' = updateNodeStatus(updateNodeStatus(nodes, 3, "COMPLETED"), 4, "RUNNING")
  /\ runs' = [runs EXCEPT ![r].pc = "step4",
                          ![r].deadline = clock + STEP4_DELAY_MS]
  /\ UNCHANGED <<variant, apiKey, target, searchVars, parseVars, ignoredWhile, isRunning,
                 errorMsg, rendered, clock>>

(* The 300 ms timer of step 4 resolves: the workflow ends *)
Step4Done(r) ==
  /\ runs[r].pc = "step4"
  /\ RenderCommitted
  /\ clock >= runs[r].deadline
  /\ nodes' = updateNodeStatus(nodes, 4, "COMPLETED")
  /\ isRunning' = finallyIsRunning(isRunning)
  /\ runs' = [runs EXCEPT ![r] = EndedRun(FALSE, "")]
  /\ UNCHANGED <<variant, apiKey, target, searchVars, parseVars, ignoredWhile, leads,
                 errorMsg, lastAddedCount, rendered, clock>>

(* The call r waits for one of its three timers *)
OnTimer(r) == runs[r].pc \in {"step1", "step3", "step4"}

(* Time passes while a workflow is suspended.  A timer that is due fires   *)
(* before the clock moves on; a search may stay outstanding until          *)
(* MaxClock, a timer that was started always gets the time to run out.     *)
AppTick ==
  /\ \E r \in DOMAIN runs : Active(r)
  /\ RenderCommitted
  /\ \A r \in DOMAIN runs : OnTimer(r) => clock < runs[r].deadline
  /\ \/ clock + AppTickMs <= MaxClock
     \/ \E r \in DOMAIN runs : OnTimer(r)
  /\ clock' = clock + AppTickMs
  /\ UNCHANGED <<variant, apiKey, target, searchVars, parseVars, ignoredWhile, nodes, leads,
                 isRunning, errorMsg, lastAddedCount, rendered, runs>>

(* At most MaxFreshRuns calls on a freshly loaded page *)
NextApp ==
  \/ Render
  \/ \E isAppend \in BOOLEAN : Len(runs) < MaxFreshRuns /\ Trigger(isAppend)
  \/ \E isAppend \in BOOLEAN : TriggerIgnored(isAppend)
  \/ \E r \in DOMAIN runs : Step1Done(r)
  \/ \E r \in DOMAIN runs : \E res \in SearchResults(clock) : SearchReturns(r, res)
  \/ \E r \in DOMAIN runs : \E m \in SearchFaults : SearchThrows(r, m)
  \/ \E r \in DOMAIN runs : Step3Done(r)
  \/ \E r \in DOMAIN runs : Step4Done(r)
  \/ AppTick

SpecApp == InitApp /\ [][NextApp]_vars

(* The first clock value of the model at which a timer due at t has run    *)
(* out                                                                     *)
FiredAt(t) == ((t + AppTickMs - 1) \div AppTickMs) * AppTickMs

(* When the search, step 3 and step 4 of a runWorkflow(false) call made at *)
(* page load are over, if the search resolves the moment it is called      *)
FirstSearchAt == FiredAt(STEP1_DELAY_MS)
FirstStep3At == FiredAt(FirstSearchAt + STEP3_DELAY_MS)
FirstStep4At == FiredAt(FirstStep3At + STEP4_DELAY_MS)

(* The page after one runWorkflow(false) call that found records: all four *)
(* steps COMPLETED, the list holds the records of that search, and the     *)
(* buttons of the committed render are enabled again                       *)
InitAppHeld ==
  /\ variant = "ladder"
  /\ apiKey = TRUE
  /\ target = DEFAULT_TARGET
  /\ SearchIdle
  /\ ParseIdle
  /\ nodes = [id \in NodeIds |-> "COMPLETED"]
  /\ leads \in {res \in SearchResults(FirstSearchAt) : Len(res) > 0}
  /\ isRunning = FALSE
  /\ errorMsg = NO_MESSAGE
  /\ lastAddedCount = Len(leads)
  /\ rendered = [isRunning |-> FALSE, leads |-> leads]
  /\ runs = <<EndedRun(FALSE, "")>>
  /\ clock = FirstStep4At
  /\ ignoredWhile = "none"

(* Further calls on a page that holds a list: MaxRuns calls in all, the    *)
(* one that filled the list included                                       *)
NextAppHeld ==
  \/ Render
  \/ \E isAppend \in BOOLEAN : Trigger(isAppend)
  \/ \E isAppend \in BOOLEAN : TriggerIgnored(isAppend)
  \/ \E r \in DOMAIN runs : Step1Done(r)
  \/ \E r \in DOMAIN runs : \E res \in SearchResults(clock) : SearchReturns(r, res)
  \/ \E r \in DOMAIN runs : \E m \in SearchFaults : SearchThrows(r, m)
  \/ \E r \in DOMAIN runs : Step3Done(r)
  \/ \E r \in DOMAIN runs : Step4Done(r)
  \/ AppTick

SpecAppHeld == InitAppHeld /\ [][NextAppHeld]_vars

(* A timer that is due fires and an outstanding searchBusinesses call      *)
(* settles: some suspended runWorkflow call takes its next step            *)
Resume ==
  \E r \in DOMAIN runs :
    \/ Step1Done(r)
    \/ \E res \in SearchResults(clock) : SearchReturns(r, res)
    \/ \E m \in SearchFaults : SearchThrows(r, m)
    \/ Step3Done(r)
    \/ Step4Done(r)

(* The workflow of at most MaxLiveRuns calls under the assumption that     *)
(* time passes, every timer and every external call eventually completes   *)
(* and React eventually renders; nothing obliges the user to click.        *)
NextAppLive ==
  \/ Render
  \/ \E isAppend \in BOOLEAN : Len(runs) < MaxLiveRuns /\ Trigger(isAppend)
  \/ \E isAppend \in BOOLEAN : TriggerIgnored(isAppend)
  \/ Resume
  \/ AppTick

SpecAppLive ==
  /\ InitApp
  /\ [][NextAppLive]_vars
  /\ WF_vars(Resume)
  /\ WF_vars(AppTick)
  /\ WF_vars(Render)

----------------------------------------------------------------------------
(* Properties of one searchBusinesses invocation.  The claims on the retry *)
(* policy are about the two versions that retry, halving and ladder.       *)

(* C1 as stated: one invocation issues at most two calls to the endpoint,  *)
(* the first attempt and at most one retry, and ends after the second      *)
(* attempt whatever it produced.                                           *)
C1_AtMostTwoCalls ==
  variant \in {"halving", "ladder"} =>
    /\ calls <= 2
    /\ Len(batches) <= 2
    /\ (Len(results) = 2 => pc = "done")

(* C1 amended: the halving version issues at most two calls (the first     *)
(* attempt and one retry) and ends after the second attempt; the fixed     *)
(* ladder issues at most three (40, 20, 10) and ends after the third.      *)
C1_CallsBoundedPerVersion ==
  /\ variant = "halving" =>
       /\ calls <= 2
       /\ Len(batches) <= 2
       /\ (Len(results) = 2 => pc = "done")
  /\ variant = "ladder" =>
       /\ calls <= 3
       /\ Len(batches) <= 3
       /\ (Len(results) = 3 => pc = "done")

C1_Witness ==
  /\ variant = "ladder"
  /\ calls = 3
  /\ Len(results) = 3
  /\ pc = "done"

(* C2: a first attempt that throws an error whose message        *)
(* contains "429" is never followed by a second attempt and the caller     *)
(* receives the quota-specific message.                                    *)
C2_First429GivesQuotaMessage ==
  (/\ variant \in {"halving", "ladder"}
   /\ Len(results) >= 1
   /\ results[1].kind = "error"
   /\ Includes(results[1].err.message, "429"))
  => /\ Len(batches) = 1
     /\ pc = "done"
     /\ outcome.kind = "error"
     /\ outcome.err.message = MSG_QUOTA

(* C3 as stated: a first attempt that returns zero records without         *)
(* throwing is followed, after the fixed delay, by exactly one retry whose *)
(* batch size is at most half the target (floor 5), and the invocation     *)
(* ends with that retry's records or with that retry's failure.            *)
C3_EmptyFirstRetriesOnce ==
  (/\ variant \in {"halving", "ladder"}
   /\ Len(results) >= 1
   /\ results[1] = Records(0))
  => /\ Len(batches) <= 2
     /\ Len(batches) = 1 =>
          /\ pc = "waiting"
          /\ deadline >= endedAt[1] + WAIT_TIME_MS
     /\ Len(batches) = 2 =>
          /\ startedAt[2] >= endedAt[1] + WAIT_TIME_MS
          /\ (batches[2] = MIN_FALLBACK \/ 2 * batches[2] <= batches[1])
     /\ Len(results) = 2 =>
          /\ pc = "done"
          /\ outcome.kind = results[2].kind
          /\ outcome.n = results[2].n

(* C3 amended: in the halving version a first attempt that returns zero    *)
(* records without throwing is followed, after the fixed delay, by exactly *)
(* one retry that asks for max(5, floor(target/2)), and the invocation     *)
(* ends with that retry's records or with that retry's failure (the quota  *)
(* message when the retry's error text contains "429"); the fixed ladder   *)
(* makes no retry and returns the empty result at once.                    *)
C3_EmptyFirstPerVersion ==
  (/\ Len(results) >= 1
   /\ results[1] = Records(0))
  => /\ variant = "halving" =>
          /\ Len(batches) <= 2
          /\ Len(batches) = 1 =>
               /\ pc = "waiting"
               /\ delays = 1
               /\ deadline >= endedAt[1] + WAIT_TIME_MS
          /\ Len(batches) = 2 =>
               /\ startedAt[2] >= endedAt[1] + WAIT_TIME_MS
               /\ (batches[2] = MIN_FALLBACK \/ 2 * batches[2] <= batches[1])
               /\ (batches[2] = MIN_FALLBACK \/ 2 * batches[2] + 1 >= batches[1])
          /\ Len(results) = 2 =>
               /\ pc = "done"
               /\ outcome.kind = results[2].kind
               /\ outcome.n = results[2].n
               /\ outcome.err =
                    IF results[2].kind = "error"
                         /\ Includes(results[2].err.message, "429")
                      THEN NewError(MSG_QUOTA)
                      ELSE results[2].err
     /\ variant = "ladder" =>
          /\ Len(batches) = 1
          /\ delays = 0
          /\ pc = "done"
          /\ outcome = [kind |-> "records", n |-> 0, err |-> NoError]

C3_Witness ==
  /\ variant = "halving"
  /\ target = DEFAULT_TARGET
  /\ Len(results) = 2
  /\ results[1] = Records(0)
  /\ batches[2] = 10
  /\ pc = "done"
  /\ outcome.kind = "records"
  /\ outcome.n > 0

(* C4: a quota / rate-limit fault (status code 429, or text containing     *)
(* "429" or "quota"), on whichever attempt it occurs, is never followed by *)
(* another attempt and reaches the caller as the fixed "try again later"   *)
(* message, not as the raw error.                                          *)
C4_QuotaFaultShortCircuits ==
  variant \in {"halving", "ladder"} =>
    \A k \in 1..Len(results) :
      (/\ results[k].kind = "error"
       /\ \/ results[k].err.status = 429
          \/ Includes(results[k].err.message, "429")
          \/ Includes(results[k].err.message, "quota"))
      => /\ Len(batches) = k
         /\ pc = "done"
         /\ outcome.kind = "error"
         /\ outcome.err.message = MSG_QUOTA

(* C5: a first attempt that throws a transient server-side fault (status   *)
(* or code 500, or a message containing "Internal error") that is not a    *)
(* quota fault is not surfaced: the fixed delay is waited and a retry with *)
(* a reduced batch size, one smaller than that of the first attempt, is    *)
(* issued.                                                                 *)
C5_TransientFirstIsRetried ==
  (/\ variant \in {"halving", "ladder"}
   /\ Len(results) >= 1
   /\ results[1].kind = "error"
   /\ \/ results[1].err.status = 500
      \/ results[1].err.code = 500
      \/ Includes(results[1].err.message, "Internal error")
   /\ results[1].err.status # 429
   /\ ~Includes(results[1].err.message, "429")
   /\ ~Includes(results[1].err.message, "quota"))
  => /\ ~(Len(batches) = 1 /\ pc = "done")
     /\ delays >= 1
     /\ Len(batches) = 1 =>
          /\ pc = "waiting"
          /\ outcome.kind = "none"
          /\ deadline >= endedAt[1] + WAIT_TIME_MS
     /\ Len(batches) >= 2 =>
          /\ startedAt[2] >= endedAt[1] + WAIT_TIME_MS
          /\ batches[2] < batches[1]

(* C6 as stated: searchBusinesses fails with an error whenever both the    *)
(* first attempt and the retry failed or returned zero records, and makes  *)
(* no attempt after the second one.                                        *)
C6_ExhaustedFailsWithError ==
  variant \in {"halving", "ladder"} =>
    /\ Len(batches) <= 2
    /\ (/\ Len(results) >= 2
        /\ (results[1].kind = "error" \/ results[1].n = 0)
        /\ (results[2].kind = "error" \/ results[2].n = 0))
       => /\ pc = "done"
          /\ outcome.kind = "error"

(* C6 amended: searchBusinesses fails with an error whenever its last      *)
(* attempt threw; when its last attempt returned zero records without      *)
(* throwing it returns that empty list to the caller instead of failing.   *)
(* The halving version makes no attempt after the second one, the fixed    *)
(* ladder none after the third.                                            *)
C6_LastAttemptDecides ==
  /\ variant = "halving" => Len(batches) <= 2
  /\ variant = "ladder" => Len(batches) <= 3
  /\ pc = "done" =>
       LET last == results[Len(results)]
       IN  /\ Len(results) = Len(batches)
           /\ last.kind = "error" => outcome.kind = "error"
           /\ last.kind = "records" =>
                outcome = [kind |-> "records", n |-> last.n, err |-> NoError]
  /\ pc # "done" => outcome.kind = "none"

C6_Witness ==
  /\ variant = "halving"
  /\ pc = "done"
  /\ Len(results) = 2
  /\ results[1].kind = "error"
  /\ results[2] = Records(0)
  /\ outcome = [kind |-> "records", n |-> 0, err |-> NoError]

(* C7: within one invocation the requested batch size is a positive        *)
(* integer that strictly decreases from each attempt to the next, for      *)
(* every target batch size the caller may pass.                            *)
C7_BatchStrictlyDecreases ==
  variant \in {"halving", "ladder"} =>
    \A k \in 1..Len(batches) :
      /\ batches[k] \in Nat
      /\ batches[k] > 0
      /\ k > 1 => batches[k] < batches[k - 1]

(* C8: when the API credential is absent no call to the endpoint is ever   *)
(* issued during the invocation, and the caller receives the error "API    *)
(* Key not found in environment variables".                                *)
C8_NoKeyNoCall ==
  ~apiKey =>
    /\ calls = 0
    /\ outstanding = 0
    /\ pc # "inflight"
    /\ pc = "done" =>
         outcome = [kind |-> "error", n |-> 0, err |-> NewError(MSG_API_KEY)]

C8_Witness ==
  /\ ~apiKey
  /\ variant = "halving"
  /\ pc = "done"
  /\ Len(batches) = 2
  /\ calls = 0
  /\ outcome.err.message = MSG_API_KEY

(* C9: a missing-credential error is surfaced immediately: it is thrown    *)
(* from the first attempt, without waiting the retry delay and without     *)
(* entering any retry attempt.                                             *)
C9_NoKeyFailsAtOnce ==
  (~apiKey /\ variant \in {"halving", "ladder"} /\ pc # "idle") =>
    /\ pc = "done"
    /\ delays = 0
    /\ Len(batches) = 1
    /\ outcome.kind = "error"
    /\ outcome.err.message = MSG_API_KEY

(* C10: retries are strictly sequential: never two attempts outstanding,   *)
(* and attempt k+1 begins only after attempt k has failed or returned      *)
(* empty and the fixed delay WAIT_TIME_MS has then elapsed.                *)
C10_RetriesSequential ==
  /\ outstanding \in {0, 1}
  /\ Len(batches) - Len(results) \in {0, 1}
  /\ outstanding = 1 => Len(batches) = Len(results) + 1
  /\ Len(startedAt) = Len(batches)
  /\ Len(endedAt) = Len(results)
  /\ \A k \in 1..Len(results) : startedAt[k] <= endedAt[k]
  /\ \A k \in 2..Len(batches) :
       /\ results[k - 1].kind = "error" \/ results[k - 1].n = 0
       /\ startedAt[k] >= endedAt[k - 1] + WAIT_TIME_MS

C10_Witness ==
  /\ variant = "ladder"
  /\ Len(batches) = 3
  /\ outstanding = 1
  /\ startedAt[3] >= endedAt[2] + WAIT_TIME_MS
  /\ startedAt[2] >= endedAt[1] + WAIT_TIME_MS

----------------------------------------------------------------------------
(* Properties of the pure stages of fetchFromGemini (SpecParse)            *)

(* C13: an exclusion list longer than the bound N of the version is cut to *)
(* its N most recent (last) entries, in order, before it is embedded in    *)
(* the prompt; a list of at most N entries is embedded unchanged, and an   *)
(* empty list adds no exclusion text.                                      *)
C13_ExclusionIsRecentSuffix ==
  (jobDone /\ job.kind = "truncate") =>
    LET n == Len(job.names)
        N == ExcludeLimit(variant)
    IN  /\ n > N => exclusion.names = SubSeq(job.names, n - N + 1, n)
        /\ n <= N => exclusion.names = job.names
        /\ exclusion.present = (n > 0)

C15_UnreducibleGivesEmpty ==
  (jobDone /\ job.kind = "extract") =>
    LET c == StripFences(job.text)
        f == FirstIndexOf(c, "[")
        l == LastIndexOf(c, "]")
        reduced == IF f # 0 /\ l > f THEN SubSeq(c, f, l) ELSE <<>>
    IN  /\ extraction.kind = "records"
        /\ ~IsArrayText(reduced) => extraction.elems = <<>>

C15_Witness ==
  /\ jobDone
  /\ variant = "ladder"
  /\ job.text = <<"p", "[", "a", "]", "]">>
  /\ extraction = Parsed(<<>>)

(* C16 as stated: an element missing name gives the record name "Unknown   *)
(* Business", an element missing address gives "No address found", and an  *)
(* element that has these fields keeps its own values.                     *)
C16_PlaceholdersOnlyWhenMissing ==
  (jobDone /\ job.kind = "normalize") =>
    /\ job.item.name = JS_UNDEFINED => record.name = PLACEHOLDER_NAME
    /\ job.item.address = JS_UNDEFINED => record.address = PLACEHOLDER_ADDRESS
    /\ job.item.name \notin {JS_UNDEFINED, JS_NULL} => record.name = job.item.name
    /\ job.item.address \notin {JS_UNDEFINED, JS_NULL} =>
         record.address = job.item.address

(* C16 amended: an element whose name is missing, null or the empty string *)
(* (any falsy value) gives the record name "Unknown Business", and         *)
(* likewise "No address found" for address; an element with a non-empty    *)
(* name or address keeps its own value.                                    *)
C16_PlaceholdersWhenFalsy ==
  (jobDone /\ job.kind = "normalize") =>
    /\ record.name =
         IF job.item.name \in {JS_UNDEFINED, JS_NULL, JS_FALSE, ""}
           THEN PLACEHOLDER_NAME ELSE job.item.name
    /\ record.address =
         IF job.item.address \in {JS_UNDEFINED, JS_NULL, JS_FALSE, ""}
           THEN PLACEHOLDER_ADDRESS ELSE job.item.address

C16_Witness ==
  /\ jobDone
  /\ job.kind = "normalize"
  /\ job.item.name = JS_UNDEFINED
  /\ job.item.address = "1 Main St"
  /\ record.name = PLACEHOLDER_NAME
  /\ record.address = "1 Main St"

(* C17 as stated: with no explicit websiteQuality the derived quality is   *)
(* "Good" when website is any non-null value and "Bad" when website is     *)
(* null; an explicit websiteQuality is kept.                               *)
C17_QualityFromNonNullWebsite ==
  (jobDone /\ job.kind = "normalize") =>
    /\ (job.item.websiteQuality = JS_UNDEFINED
          /\ job.item.website \notin {JS_UNDEFINED, JS_NULL})
       => record.websiteQuality = "Good"
    /\ (job.item.websiteQuality = JS_UNDEFINED
          /\ job.item.website \in {JS_UNDEFINED, JS_NULL})
       => record.websiteQuality = "Bad"
    /\ job.item.websiteQuality \notin {JS_UNDEFINED, JS_NULL}
       => record.websiteQuality = job.item.websiteQuality

(* C17 amended: with no websiteQuality (missing, null or empty) the        *)
(* derived quality is "Good" when website is a non-empty string and "Bad"  *)
(* when website is null, missing, false or the empty string; a non-empty   *)
(* websiteQuality is kept.                                                 *)
C17_QualityFromTruthyWebsite ==
  (jobDone /\ job.kind = "normalize") =>
    LET noQuality == job.item.websiteQuality \in {JS_UNDEFINED, JS_NULL, JS_FALSE, ""}
        noWebsite == job.item.website \in {JS_UNDEFINED, JS_NULL, JS_FALSE, ""}
    IN  /\ (noQuality /\ ~noWebsite) => record.websiteQuality = "Good"
        /\ (noQuality /\ noWebsite) => record.websiteQuality = "Bad"
        /\ ~noQuality => record.websiteQuality = job.item.websiteQuality

C17_Witness ==
  /\ jobDone
  /\ job.kind = "normalize"
  /\ job.item.websiteQuality = JS_UNDEFINED
  /\ job.item.website = ""
  /\ record.websiteQuality = "Bad"

(* C18: every record has a websiteQuality that is one of "Good", "Decent", *)
(* "Bad", whatever value the response element carried in that field.       *)
C18_QualityInEnumeration ==
  (jobDone /\ job.kind = "normalize") =>
    record.websiteQuality \in {"Good", "Decent", "Bad"}

----------------------------------------------------------------------------
(* Properties of the workflow of App.tsx (SpecApp)                         *)

(* C11: at most one searchBusinesses call is outstanding at any time:      *)
(* while a runWorkflow is in flight no further call starts, and a trigger  *)
(* that arrives then, replace or append, issues no search call and changes *)
(* neither the list, the error message nor the pipeline steps.             *)
C11_AtMostOneSearchOutstanding ==
  [][/\ Cardinality({r \in DOMAIN runs : runs[r].pc = "searching"}) <= 1
     /\ Cardinality({r \in DOMAIN runs' : runs'[r].pc = "searching"}) <= 1
     /\ (\E r \in DOMAIN runs : runs[r].pc # "done") => Len(runs') = Len(runs)
     /\ ignoredWhile' # ignoredWhile =>
          /\ runs' = runs
          /\ leads' = leads
          /\ errorMsg' = errorMsg
          /\ nodes' = nodes
          /\ isRunning' = isRunning
    ]_vars

C11_Witness ==
  /\ ignoredWhile = "searching"
  /\ Len(runs) = 1
  /\ runs[1].pc = "step3"
  /\ Len(runs[1].results) > 0

(* C12: when runWorkflow appends, the list keeps the held records and      *)
(* gains exactly the returned records whose name is not the name of a      *)
(* record held in the visible list at that moment, in the order returned;  *)
(* every name of the full held list counts.                                *)
C12_AppendDropsHeldNames ==
  [][\A r \in DOMAIN runs :
       (runs[r].pc = "step3" /\ runs'[r].pc = "step4" /\ Len(runs[r].results) > 0)
       => /\ Len(leads') >= Len(leads)
          /\ SubSeq(leads', 1, Len(leads)) = leads
          /\ SubSeq(leads', Len(leads) + 1, Len(leads')) =
               SelectSeq(runs[r].results,
                         LAMBDA x : \A j \in 1..Len(leads) : leads[j].name # x.name)
    ]_vars

C12_Witness ==
  \E r \in DOMAIN runs :
    /\ runs[r].pc = "step4"
    /\ runs[r].isAppend
    /\ Len(leads) >= 3
    /\ \E i \in 1..Len(runs[r].results) :
         /\ runs[r].results[i].name = leads[1].name
         /\ \A j \in 1..Len(leads) : leads[j].id # runs[r].results[i].id
    /\ \E i \in 1..Len(runs[r].results) :
         leads[Len(leads)] = runs[r].results[i]

(* C19: the ids of the records produced from one response are pairwise     *)
(* distinct, and at every moment all records of the visible list have      *)
(* pairwise distinct ids.                                                  *)
C19_IdsPairwiseDistinct ==
  /\ \A r \in DOMAIN runs :
       \A i, j \in 1..Len(runs[r].results) :
         i # j => runs[r].results[i].id # runs[r].results[j].id
  /\ \A i, j \in 1..Len(leads) : i # j => leads[i].id # leads[j].id

C19_Witness ==
  /\ Len(leads) >= 3
  /\ \E i, j \in 1..Len(leads) : i # j /\ leads[i].id[1] = leads[j].id[1]
  /\ \E i, j \in 1..Len(leads) : i # j /\ leads[i].id[2] = leads[j].id[2]

(* C20: when searchBusinesses throws, runWorkflow shows the error's        *)
(* message (or "An unknown error occurred" when it has none), marks step 2 *)
(* as ERROR, leaves steps 3 and 4 IDLE and appends nothing to the list.    *)
C20_ThrowShowsMessageAndMarksStep2 ==
  [][\A r \in DOMAIN runs :
       (runs[r].pc = "searching" /\ runs'[r].pc = "done" /\ runs'[r].searchThrew)
       => /\ errorMsg' = IF runs'[r].error = "" THEN MSG_UNKNOWN
                         ELSE runs'[r].error
          /\ nodes'[2] = "ERROR"
          /\ nodes'[3] = "IDLE"
          /\ nodes'[4] = "IDLE"
          /\ leads' = leads
    ]_vars

(* C22: in every reachable state the visible result list holds no two      *)
(* records with the same name, whatever the endpoint returned, also for a  *)
(* response whose array repeats a name.                                    *)
C22_NoTwoLeadsShareName ==
  \A i, j \in 1..Len(leads) : i # j => leads[i].name # leads[j].name

(* C23: whenever no workflow is in flight (isRunning is false), no         *)
(* pipeline step has status RUNNING, whatever the search returned or threw *)
C23_IdleMeansNoStepRunning ==
  ~isRunning => \A id \in NodeIds : nodes[id] # "RUNNING"

(* C25: after a run that appended records, lastAddedCount equals the       *)
(* number of records the run added to the visible list, the growth of the  *)
(* list's length.                                                          *)
C25_AddedCountIsGrowth ==
  [][\A r \in DOMAIN runs :
       (runs[r].pc = "step3" /\ runs'[r].pc = "step4" /\ Len(leads') > Len(leads))
       => lastAddedCount' = Len(leads') - Len(leads)
    ]_vars

(* C21: in replace mode the visible list is empty when the search is       *)
(* issued, the search receives an empty exclusion list, and the list after *)
(* the append holds only records returned by that run; in append mode the  *)
(* search receives exactly the names of the held records, in list order.   *)
C21_ReplaceAndAppendModes ==
  [][\A r \in DOMAIN runs :
       /\ (runs[r].pc = "step1" /\ runs'[r].pc = "searching")
          => IF runs[r].isAppend
               THEN runs'[r].excludeNames = [i \in 1..Len(leads) |-> leads[i].name]
               ELSE leads = <<>> /\ runs'[r].excludeNames = <<>>
       /\ (runs[r].pc = "step3" /\ runs'[r].pc = "step4" /\ ~runs[r].isAppend)
          => \A i \in 1..Len(leads') :
               \E j \in 1..Len(runs[r].results) : leads'[i] = runs[r].results[j]
    ]_vars

C21_Witness ==
  /\ Len(runs) = 3
  /\ runs[3].pc = "searching"
  /\ runs[3].isAppend
  /\ Len(leads) = 2
  /\ runs[3].excludeNames = <<leads[1].name, leads[2].name>>
  /\ \A i \in 1..Len(leads) : leads[i].id[1] > FirstSearchAt + MaxMapMs

(* C26: while an append run is under way the records already held stay,    *)
(* unchanged and in order, a prefix of the visible list, and an append run *)
(* whose search throws or returns no record leaves the list as it was.     *)
C26_AppendKeepsHeldPrefix ==
  [][/\ \A r \in DOMAIN runs :
          (runs[r].pc # "done" /\ runs[r].isAppend)
          => /\ Len(leads') >= Len(leads)
             /\ SubSeq(leads', 1, Len(leads)) = leads
             /\ (runs'[r].pc = "done" /\ runs'[r].searchThrew) => leads' = leads
             /\ Len(runs'[r].results) = 0 => leads' = leads
     /\ (Len(runs') > Len(runs) /\ runs'[Len(runs')].isAppend) => leads' = leads
    ]_vars

C26_Witness ==
  /\ Len(runs) = 2
  /\ runs[2].pc = "step4"
  /\ runs[2].isAppend
  /\ Len(leads) >= 2
  /\ leads[1].id[1] = FirstSearchAt
  /\ leads[Len(leads)].id[1] > FirstSearchAt + MaxMapMs

(* C27: at every moment at most one step is RUNNING and step k is RUNNING  *)
(* or COMPLETED only if steps 1..k-1 are all COMPLETED; after a run whose  *)
(* search returned at least one record all four steps are COMPLETED and no *)
(* error message is shown.                                                 *)
C27_StepsAdvanceInOrder ==
  [][/\ Cardinality({id \in NodeIds : nodes'[id] = "RUNNING"}) <= 1
     /\ \A k \in NodeIds :
          nodes'[k] \in {"RUNNING", "COMPLETED"}
          => \A j \in 1..(k - 1) : nodes'[j] = "COMPLETED"
     /\ \A r \in DOMAIN runs :
          (runs[r].pc = "step4" /\ runs'[r].pc = "done" /\ Len(runs[r].results) > 0)
          => /\ \A id \in NodeIds : nodes'[id] = "COMPLETED"
             /\ errorMsg' = NO_MESSAGE
    ]_vars

C27_Witness ==
  /\ Len(runs) = 2
  /\ \A r \in DOMAIN runs : runs[r].pc = "done" /\ ~runs[r].searchThrew
  /\ \A id \in NodeIds : nodes[id] = "COMPLETED"
  /\ errorMsg = NO_MESSAGE
  /\ lastAddedCount > 0
  /\ Len(leads) >= 3

(* C28: when searchBusinesses returns zero records, a replace run shows    *)
(* "No leads found. Please try a different query.", ends with step 2 in    *)
(* ERROR, steps 3 and 4 IDLE and the list empty; an append run shows "No   *)
(* new leads found. Try a different query.", still drives all four steps   *)
(* to COMPLETED and leaves the held list unchanged.                        *)
C28_ZeroRecordsPerMode ==
  [][\A r \in DOMAIN runs :
       /\ (runs[r].pc = "searching" /\ runs'[r].pc = "done" /\ ~runs'[r].searchThrew)
          => /\ errorMsg' = MSG_NO_LEADS
             /\ nodes'[2] = "ERROR" /\ nodes'[3] = "IDLE" /\ nodes'[4] = "IDLE"
             /\ leads' = <<>>
       /\ (runs[r].pc = "searching" /\ runs'[r].pc = "step3"
             /\ Len(runs'[r].results) = 0)
          => errorMsg' = MSG_NO_NEW_LEADS /\ leads' = leads
       /\ (runs[r].pc = "step3" /\ runs'[r].pc = "step4"
             /\ Len(runs[r].results) = 0)
          => leads' = leads
       /\ (runs[r].pc = "step4" /\ runs'[r].pc = "done"
             /\ Len(runs[r].results) = 0)
          => /\ errorMsg' = MSG_NO_NEW_LEADS
             /\ \A id \in NodeIds : nodes'[id] = "COMPLETED"
             /\ leads' = leads
    ]_vars

C28_Witness ==
  /\ Len(runs) = 2
  /\ runs[2].pc = "done"
  /\ ~runs[2].searchThrew
  /\ errorMsg = MSG_NO_NEW_LEADS
  /\ \A id \in NodeIds : nodes[id] = "COMPLETED"
  /\ Len(leads) > 0
  /\ lastAddedCount = 0

----------------------------------------------------------------------------
(* The fixed ladder of geminiService.ts (Spec)                             *)

(* C29: in the fixed ladder the attempts are made with batch sizes 40,     *)
(* then 20, then 10; a further attempt follows only an attempt that threw  *)
(* a 500 / "Internal error" fault, any other error is rethrown to the      *)
(* caller unchanged without a further attempt, and the result an attempt   *)
(* returns is returned to the caller at once.                              *)
C29_LadderRungsAndRethrow ==
  variant = "ladder" =>
    LET internal(e) ==
          e.status = 500 \/ e.code = 500 \/ "Internal error" \in KeywordsIn(e.message)
    IN  /\ Len(batches) <= 3
        /\ \A k \in 1..Len(batches) : batches[k] = <<40, 20, 10>>[k]
        /\ \A k \in 2..Len(batches) :
             results[k - 1].kind = "error" /\ internal(results[k - 1].err)
        /\ \A k \in 1..Len(results) :
             /\ results[k].kind = "records"
                => /\ pc = "done" /\ Len(batches) = k
                   /\ outcome = [kind |-> "records", n |-> results[k].n,
                                 err |-> NoError]
             /\ (results[k].kind = "error" /\ ~internal(results[k].err))
                => /\ pc = "done" /\ Len(batches) = k
                   /\ outcome = [kind |-> "error", n |-> 0,
                                 err |-> results[k].err]
        /\ (Len(results) = 3 /\ results[3].kind = "error")
             => outcome = [kind |-> "error", n |-> 0, err |-> results[3].err]

C29_Witness ==
  /\ variant = "ladder"
  /\ pc = "done"
  /\ batches = <<40, 20, 10>>
  /\ results[1].err.status = 500
  /\ results[2].err.message = "Internal error encountered."
  /\ outcome.kind = "records"
  /\ outcome.n = MaxRecs

----------------------------------------------------------------------------
(* The mapping of a parsed response (SpecParse)                            *)

(* C24: for any response text that parses to a JSON value (a value that is *)
(* no array, or an array whose elements are null, primitives or objects),  *)
(* the parse-and-normalize stage returns a sequence of records and never   *)
(* throws.                                                                 *)
C24_MapNeverThrows ==
  (jobDone /\ job.kind = "map") => mapped.kind = "records"

----------------------------------------------------------------------------
(* Termination of the workflow (SpecAppLive)                               *)

(* C30: every runWorkflow that starts eventually ends with isRunning reset *)
(* to false, whether the search returns records, returns nothing or        *)
(* throws, provided each external call and each timer eventually           *)
(* completes; the page then again offers the trigger (the render shows     *)
(* isRunning false).                                                       *)
C30_EveryRunEnds ==
  \A r \in 1..MaxLiveRuns :
    (r \in DOMAIN runs /\ runs[r].pc # "done")
      ~> (/\ r \in DOMAIN runs
          /\ runs[r].pc = "done"
          /\ ~isRunning
          /\ ~rendered.isRunning)

C30_Witness ==
  /\ Len(runs) = 2
  /\ runs[1].pc = "done"
  /\ runs[1].searchThrew
  /\ runs[2].pc = "done"
  /\ ~runs[2].searchThrew
  /\ Len(leads) > 0
  /\ ~isRunning
  /\ ~rendered.isRunning

====
